---- MODULE Spec2Model ----
(***************************************************************************)
(* Model of split_csv.py: a quote-aware CSV splitter.  One run of          *)
(* run_as_script() is a behaviour: the input file is read in chunks of     *)
(* read_size bytes, every byte is pushed through the quoting state stack,  *)
(* and every num_per_split-th record end rotates the output file.          *)
(*                                                                         *)
(* Bytes are integers (their ASCII codes).  File names are sequences of    *)
(* one-character strings.  The file system fs maps the names of existing   *)
(* files to their contents on the device.  A handle opened for writing    *)
(* carries Python's user-space buffer of buffer_size bytes: write()        *)
(* appends to it when the data fits, and otherwise writes the pending      *)
(* bytes out and then buffers the data or, when they exceed the buffer,    *)
(* hands them to the file until no more than buffer_size bytes are left,   *)
(* which it buffers; the file may take any part of what it is handed.      *)
(* flush() and close() move what is pending to the file.  A failing write  *)
(* or flush leaves a proper prefix of the bytes it was moving in the file  *)
(* and raises OSError.                                                     *)
(***************************************************************************)
EXTENDS Integers, Sequences, FiniteSets, TLC

\* ------------------------------------------------------------- bounds
\* Longest enumerated input, in bytes.
MaxLen == 3
\* Largest -n/--num_per_split value tried.
MaxSplit == 2
\* Largest chunk size (read_size) tried; the program fixes it to 1 MiB.
MaxReadSize == 2

\* ------------------------------------------------------- byte values
\* ord('"')
QUOTE == 34
\* the LF the scanner compares with
LF == 10

\* The byte classes the scanner tells apart: the quote, LF, and the rest,
\* represented by CR (13) and the letter a (97).
Bytes == {QUOTE, LF, 13, 97}

\* width=6, the default of next_outfile's last parameter
Width == 6

\* ------------------------------------------------ sequences of bytes
RECURSIVE SeqsUpTo(_, _)
SeqsUpTo(S, n) ==
    IF n = 0 THEN {<<>>}
    ELSE LET shorter == SeqsUpTo(S, n - 1)
         IN  shorter \cup {Append(s, b) : s \in {t \in shorter : Len(t) = n - 1}, b \in S}

\* The inputs the specification's examples name:  "a""b" LF ,
\* f,f CR LF  and a five-record file.
ExEscaped == <<QUOTE, 97, QUOTE, QUOTE, 97, QUOTE, LF>>
ExCRLF == <<97, 44, 97, 13, LF>>
ExFive == <<97, LF, 97, LF, 97, LF, 97, LF, 97, LF>>
ExClosedCR == <<QUOTE, 97, QUOTE, 13, LF, 97>>
\* A quoted field holding an escaped quote and a line break:  """ LF " LF
ExQuotedLF == <<QUOTE, QUOTE, QUOTE, LF, QUOTE, LF>>

\* One byte of each class: the quote, LF, and CR for every other byte.
ByteClasses == {QUOTE, LF, 13}

\* Every sequence of up to MaxLen bytes over the three classes, every
\* shorter one with the second ordinary byte too, and the examples.
Inputs ==
    SeqsUpTo(ByteClasses, MaxLen) \cup SeqsUpTo(Bytes, MaxLen - 1)
        \cup {ExEscaped, ExCRLF, ExFive, ExClosedCR, ExQuotedLF}

\* ------------------------------------------------------- text helpers
Digit(d) == <<"0", "1", "2", "3", "4", "5", "6", "7", "8", "9">>[d + 1]

\* str(n) for n >= 0
RECURSIVE Dec(_)
Dec(n) == IF n < 10 THEN <<Digit(n)>> ELSE Append(Dec(n \div 10), Digit(n % 10))

\* "{}".format(n)
FormatInt(n) == IF n < 0 THEN <<"-">> \o Dec(0 - n) ELSE Dec(n)

RECURSIVE Zeros(_)
Zeros(k) == IF k <= 0 THEN <<>> ELSE <<"0">> \o Zeros(k - 1)

\* "{:0{}}".format(n, width) for n >= 0: zero-padded to at least width
FormatPadded(n, width) == Zeros(width - Len(Dec(n))) \o Dec(n)

\* ord() of the characters an index line is made of
Ord(c) ==
    CASE c = "0" -> 48 [] c = "1" -> 49 [] c = "2" -> 50 [] c = "3" -> 51
      [] c = "4" -> 52 [] c = "5" -> 53 [] c = "6" -> 54 [] c = "7" -> 55
      [] c = "8" -> 56 [] c = "9" -> 57 [] c = "-" -> 45
      [] c = "\t" -> 9 [] c = "\n" -> 10

\* str.encode("ascii")
EncodeAscii(s) == [i \in 1..Len(s) |-> Ord(s[i])]

\* --------------------------------------------------------- os.path
\* Largest i with p[i] = ch, or 0
LastIndexOf(p, ch) ==
    LET hits == {i \in 1..Len(p) : p[i] = ch}
    IN  IF hits = {} THEN 0 ELSE CHOOSE i \in hits : \A j \in hits : j <= i

\* str.rstrip("/")
RECURSIVE RStripSep(_)
RStripSep(p) ==
    IF p # <<>> /\ p[Len(p)] = "/" THEN RStripSep(SubSeq(p, 1, Len(p) - 1)) ELSE p

\* os.path.split(p): (head, tail) around the last "/"; the head loses its
\* trailing slashes unless it consists of slashes only
PathSplit(p) ==
    LET i == LastIndexOf(p, "/")
        head == SubSeq(p, 1, i)
        tail == SubSeq(p, i + 1, Len(p))
    IN  IF \A k \in 1..Len(head) : head[k] = "/"
        THEN <<head, tail>>
        ELSE <<RStripSep(head), tail>>

\* os.path.splitext(p): (root, ext) at the last "." of the last component,
\* unless that component consists of leading dots only before it
PathSplitExt(p) ==
    LET sep == LastIndexOf(p, "/")
        dot == LastIndexOf(p, ".")
    IN  IF dot > sep /\ \E k \in (sep + 1)..(dot - 1) : p[k] # "."
        THEN <<SubSeq(p, 1, dot - 1), SubSeq(p, dot, Len(p))>>
        ELSE <<p, <<>>>>

\* os.path.join(a, b)
PathJoin(a, b) ==
    IF b # <<>> /\ b[1] = "/" THEN b
    ELSE IF a = <<>> \/ a[Len(a)] = "/" THEN a \o b
    ELSE a \o <<"/">> \o b

\* ------------------------------------------------- output file names
\* args.input_csv and the destination of -x/--generate-index
InputPath == <<"d", "/", "t", ".", "c">>
IndexPath == <<"i">>
\* The values of -o/--output-dir tried: absent (None) or a directory.
OutputDirs == {<<>>, <<"o">>}

\* initial_output_path of next_outfile: the counter, zero-padded to width,
\* goes before the extension; beside the input, or in output_dir under the
\* input's file name.
InitialOutputPath(input_path, output_dir, counter, width) ==
    IF output_dir # <<>>
    THEN LET input_filename == PathSplit(input_path)[2]
             input_fnbase == PathSplitExt(input_filename)[1]
             input_fnext == PathSplitExt(input_filename)[2]
         IN  PathJoin(output_dir,
                 input_fnbase \o <<"_">> \o FormatPadded(counter, width) \o input_fnext)
    ELSE LET input_pathbase == PathSplitExt(input_path)[1]
             input_ext == PathSplitExt(input_path)[2]
         IN  input_pathbase \o <<"_">> \o FormatPadded(counter, width) \o input_ext

\* RetryPath splitting output_path, the previous attempt, in place of
\* initial_output_path: the disambiguators pile up (_1, _1_2, ...).
RECURSIVE RetryPathChained(_, _)
RetryPathChained(initial_output_path, retry_count) ==
    IF retry_count = 0 THEN initial_output_path
    ELSE LET previous == RetryPathChained(initial_output_path, retry_count - 1)
         IN  PathSplitExt(previous)[1] \o <<"_">> \o FormatInt(retry_count)
                 \o PathSplitExt(previous)[2]

\* output_path of the retry_count-th attempt: the initial path itself, then
\* the initial path with _1, _2, ... before its extension.
RetryPath(initial_output_path, retry_count) ==
    IF retry_count = 0 THEN initial_output_path
    ELSE LET output_base == PathSplitExt(initial_output_path)[1]
             output_ext == PathSplitExt(initial_output_path)[2]
         IN  output_base \o <<"_">> \o FormatInt(retry_count) \o output_ext

\* open(output_path, 'wb'): succeeds whether or not the file exists
OpenTruncating(files, path) == TRUE

\* open(output_path, 'xb'): succeeds exactly when no file of that name exists
OpenExclusiveOk(files, path) == path \notin DOMAIN files

\* The while loop of next_outfile: the first attempt whose exclusive create
\* succeeds.
RECURSIVE RetryLoop(_, _, _)
RetryLoop(files, initial_output_path, retry_count) ==
    IF OpenExclusiveOk(files, RetryPath(initial_output_path, retry_count))
    THEN RetryPath(initial_output_path, retry_count)
    ELSE RetryLoop(files, initial_output_path, retry_count + 1)

\* next_outfile: the name of the file it creates and returns a handle to
NextOutfile(files, input_path, output_dir, counter) ==
    RetryLoop(files, InitialOutputPath(input_path, output_dir, counter, Width), 0)

\* The file system after creating the empty file path
CreateFile(files, path) ==
    [n \in DOMAIN files \cup {path} |-> IF n = path THEN <<>> ELSE files[n]]

\* The file system after a handle on path has written data
WriteFile(files, path, data) == [files EXCEPT ![path] = @ \o data]

\* ------------------------------------------------------- the scanner
Top(stack) == stack[Len(stack)]
Pop(stack) == SubSeq(stack, 1, Len(stack) - 1)

\* ResolveEndquote without the pop of line 108: the endquote stays under
\* the literal_quote marker.
ResolveEndquoteNoPop(stack, char) ==
    IF Top(stack) = "endquote" /\ char = QUOTE
    THEN Append(stack, "literal_quote")
    ELSE IF Top(stack) = "endquote"
    THEN Pop(Pop(stack))
    ELSE stack

\* ResolveEndquote with one pop instead of the two of lines 112-113.
ResolveEndquoteOnePop(stack, char) ==
    IF Top(stack) = "endquote" /\ char = QUOTE
    THEN Append(Pop(stack), "literal_quote")
    ELSE IF Top(stack) = "endquote"
    THEN Pop(stack)
    ELSE stack

\* First if/elif chain of the loop body: resolve a pending endquote.
ResolveEndquote(stack, char) ==
    IF Top(stack) = "endquote" /\ char = QUOTE
    THEN Append(Pop(stack), "literal_quote")
    ELSE IF Top(stack) = "endquote"
    THEN Pop(Pop(stack))
    ELSE stack

\* Classify without the pop of line 115: the literal_quote marker stays.
ClassifyKeepsLiteral(stack, char) ==
    IF Top(stack) = "literal_quote"
    THEN [state |-> stack, is_record_end |-> FALSE]
    ELSE IF Top(stack) = "inquote" /\ char = QUOTE
    THEN [state |-> Append(stack, "endquote"), is_record_end |-> FALSE]
    ELSE IF Top(stack) = "inquote"
    THEN [state |-> stack, is_record_end |-> FALSE]
    ELSE IF char = QUOTE
    THEN [state |-> Append(stack, "inquote"), is_record_end |-> FALSE]
    ELSE IF char = LF
    THEN [state |-> stack, is_record_end |-> TRUE]
    ELSE [state |-> stack, is_record_end |-> FALSE]

\* Classify with CR ending a record as LF does.
ClassifyCREnds(stack, char) ==
    IF Top(stack) = "literal_quote"
    THEN [state |-> Pop(stack), is_record_end |-> FALSE]
    ELSE IF Top(stack) = "inquote" /\ char = QUOTE
    THEN [state |-> Append(stack, "endquote"), is_record_end |-> FALSE]
    ELSE IF Top(stack) = "inquote"
    THEN [state |-> stack, is_record_end |-> FALSE]
    ELSE IF char = QUOTE
    THEN [state |-> Append(stack, "inquote"), is_record_end |-> FALSE]
    ELSE IF char = LF \/ char = 13
    THEN [state |-> stack, is_record_end |-> TRUE]
    ELSE [state |-> stack, is_record_end |-> FALSE]

\* Classify with the LF test ahead of the inquote tests: an LF inside a
\* quoted field ends a record.
ClassifyLFFirst(stack, char) ==
    IF Top(stack) = "literal_quote"
    THEN [state |-> Pop(stack), is_record_end |-> FALSE]
    ELSE IF char = LF
    THEN [state |-> stack, is_record_end |-> TRUE]
    ELSE IF Top(stack) = "inquote" /\ char = QUOTE
    THEN [state |-> Append(stack, "endquote"), is_record_end |-> FALSE]
    ELSE IF Top(stack) = "inquote"
    THEN [state |-> stack, is_record_end |-> FALSE]
    ELSE IF char = QUOTE
    THEN [state |-> Append(stack, "inquote"), is_record_end |-> FALSE]
    ELSE [state |-> stack, is_record_end |-> FALSE]

\* Second if/elif chain, on the stack the first chain left: the next stack
\* and whether this byte is the LF that ends a record.
Classify(stack, char) ==
    IF Top(stack) = "literal_quote"
    THEN [state |-> Pop(stack), is_record_end |-> FALSE]
    ELSE IF Top(stack) = "inquote" /\ char = QUOTE
    THEN [state |-> Append(stack, "endquote"), is_record_end |-> FALSE]
    ELSE IF Top(stack) = "inquote"
    THEN [state |-> stack, is_record_end |-> FALSE]
    ELSE IF char = QUOTE
    THEN [state |-> Append(stack, "inquote"), is_record_end |-> FALSE]
    ELSE IF char = LF
    THEN [state |-> stack, is_record_end |-> TRUE]
    ELSE [state |-> stack, is_record_end |-> FALSE]

\* One byte through both chains
ScanStep(stack, char) == Classify(ResolveEndquote(stack, char), char)

\* -------------------------------------------------------- the index
\* The offset the code writes: infh.tell()-read_size+index+1
IndexOffset(tell, rsize, idx) == tell - rsize + idx + 1

\* "{}\t{}\n".format(record_num, offset).encode("ascii")
IndexLine(rnum, offset) ==
    EncodeAscii(FormatInt(rnum) \o <<"\t">> \o FormatInt(offset) \o <<"\n">>)

\* ------------------------------------------------------------ state
VARIABLES
    input,           \* the bytes of the file args.input_csv names
    num_per_split,   \* args.num_per_split
    read_size,       \* read_size
    output_dir,      \* args.output_dir, <<>> when absent
    generate_index,  \* args.generate_index, <<>> when absent
    buffer_size,     \* the size of a writing handle's buffer (st_blksize)
    fs,              \* the files that exist: name -> contents
    fs0,             \* history: fs when the run started
    created,         \* history: the names next_outfile created, in order
    closes,          \* history: handle name -> number of close() calls on it
    pc,              \* where run_as_script is
    exc,             \* the exception in flight, "none" when there is none
    infh, outfh, indexfh,  \* the three handles: [name, st, buf]
    pos,             \* infh.tell()
    inbuf,           \* the chunk being scanned
    index,           \* index of the next byte of inbuf the for loop visits
    outbuf,          \* bytes appended and not yet written
    state,           \* the quoting state stack
    record_num,
    output_filenum

vars == <<input, num_per_split, read_size, output_dir, generate_index,
          buffer_size, fs, fs0,
          created, closes, pc, exc, infh, outfh, indexfh, pos, inbuf, index,
          outbuf, state, record_num, output_filenum>>

args == <<input, num_per_split, read_size, output_dir, generate_index,
          buffer_size, fs0>>

\* A handle variable holding None
NoHandle == [name |-> <<>>, st |-> "none", buf |-> <<>>]
\* open(n, mode): a handle with nothing buffered
OpenHandle(n) == [name |-> n, st |-> "open", buf |-> <<>>]
CloseHandle(h) == [h EXCEPT !.st = "closed"]

\* fh.write(data): the data fits the room left in the handle's buffer
Fits(h, data) == Len(h.buf) + Len(data) <= buffer_size
\* fh.write(data) returning: the numbers of bytes of the data that can have
\* reached the file.  Data that fits the room left, or an empty buffer,
\* waits in the buffer.  Longer data is handed to the file for as long as
\* more than buffer_size bytes of it remain, and the file may take any part
\* of what it is handed.
WriteOutcomes(h, data) ==
    IF Fits(h, data)
    THEN {0}
    ELSE IF Len(data) <= buffer_size
    THEN {0}
    ELSE (Len(data) - buffer_size)..Len(data)
\* fh.write(data) returning with k bytes of the data in the file: the
\* files and the handle after the write.  Data that fits the room left
\* waits in the buffer; otherwise the pending bytes are written out first,
\* and the data is buffered when it fits an empty buffer; of longer data
\* k bytes are written out and the rest is buffered.
Write(files, h, data, k) ==
    IF Fits(h, data)
    THEN [files |-> files, fh |-> [h EXCEPT !.buf = @ \o data]]
    ELSE IF Len(data) <= buffer_size
    THEN [files |-> WriteFile(files, h.name, h.buf), fh |-> [h EXCEPT !.buf = data]]
    ELSE [files |-> WriteFile(files, h.name, h.buf \o SubSeq(data, 1, k)),
          fh |-> [h EXCEPT !.buf = SubSeq(data, k + 1, Len(data))]]
\* fh.flush(): the file after the pending bytes reached it, and the handle
FlushFile(files, h) == WriteFile(files, h.name, h.buf)
Flushed(h) == [h EXCEPT !.buf = <<>>]
\* a flush that raises after k pending bytes reached the file
PartialFlushFile(files, h, k) == WriteFile(files, h.name, SubSeq(h.buf, 1, k))
PartialFlushed(h, k) == [h EXCEPT !.buf = SubSeq(@, k + 1, Len(@))]

\* buffering=int(2.5*read_size), the size of the input handle's buffer
InputBufferSize(rsize) == (5 * rsize) \div 2

\* The input position up to which the input handle has read ahead when
\* tell() is p: the buffer is filled whole from where it ran out.
ReadAhead(p, rsize, len) ==
    LET B == InputBufferSize(rsize)
        m == ((p + B - 1) \div B) * B
    IN  IF m < len THEN m ELSE len

\* infh.read(read_size) at p has to read the file: the bytes read ahead
\* are fewer than read_size
NeedsRawRead(p, rsize, len) == p + rsize > ReadAhead(p, rsize, len)

\* infh.read(read_size) at position p: up to read_size bytes, fewer only at
\* the end of the file
ReadChunk(data, p, rsize) ==
    SubSeq(data, p + 1, IF p + rsize <= Len(data) THEN p + rsize ELSE Len(data))

\* The buffer size open() gives a writing handle: the block size of the
\* file system, 4096 on the common ones.
BlockSize == 4096

\* The buffer sizes tried: the block size, and one smaller than a chunk, as
\* the block size is smaller than the chunk of line 80.
BufferSizes == {1, BlockSize}

\* The contents of a file that was there before the run
OldContent == <<120>>

\* Names of output files that may be there before the run: the first file's
\* candidate, its first disambiguation, and the second file's candidate.
PreNames(odir) ==
    {RetryPath(InitialOutputPath(InputPath, odir, 1, Width), 0),
     RetryPath(InitialOutputPath(InputPath, odir, 1, Width), 1),
     RetryPath(InitialOutputPath(InputPath, odir, 2, Width), 0)}

Init ==
    /\ input \in Inputs
    /\ num_per_split \in 1..MaxSplit
    /\ read_size \in 1..MaxReadSize
    /\ output_dir \in OutputDirs
    /\ generate_index \in {<<>>, IndexPath}
    /\ buffer_size \in BufferSizes
    /\ \E pre \in SUBSET PreNames(output_dir) :
       \E idx \in SUBSET ({generate_index} \ {<<>>}) :
           /\ fs = [n \in pre \cup idx |-> OldContent]
           \* names and buffering do not interact: the small buffer is
           \* tried where no output name is taken
           /\ buffer_size # BlockSize => pre = {}
    /\ fs0 = fs
    /\ created = <<>>
    /\ closes = <<>>
    /\ pc = "start"
    /\ exc = "none"
    /\ infh = NoHandle /\ outfh = NoHandle /\ indexfh = NoHandle
    /\ pos = 0
    /\ inbuf = <<>>
    /\ index = 0
    /\ outbuf = <<>>
    /\ state = <<>>
    /\ record_num = 0
    /\ output_filenum = 1

\* history: a handle on name n was opened / closed
NoteOpen(c, n) == [m \in DOMAIN c \cup {n} |-> IF m = n THEN 0 ELSE c[m]]
NoteClose(c, n) == [c EXCEPT ![n] = @ + 1]

\* Lines 82-83: open the input and read the first chunk.
OpenInput ==
    /\ pc = "start"
    /\ infh' = OpenHandle(InputPath)
    /\ closes' = NoteOpen(closes, InputPath)
    /\ inbuf' = ReadChunk(input, 0, read_size)
    /\ pos' = Len(inbuf')
    /\ pc' = "setup"
    /\ UNCHANGED <<args, fs, created, exc, outfh, indexfh, index, outbuf,
                   state, record_num, output_filenum>>

\* Line 82 raising (the input is missing or unreadable).
OpenInputFails ==
    /\ pc = "start"
    /\ exc' = "OSError"
    /\ pc' = "finally"
    /\ UNCHANGED <<args, fs, created, closes, infh, outfh, indexfh, pos, inbuf,
                   index, outbuf, state, record_num, output_filenum>>

\* Lines 82-83 with the first read of line 83 raising (the input is a
\* directory, or the device fails): the input is open and inbuf is unbound.
FirstReadFails ==
    /\ pc = "start"
    /\ infh' = OpenHandle(InputPath)
    /\ closes' = NoteOpen(closes, InputPath)
    /\ exc' = "OSError"
    /\ pc' = "finally"
    /\ UNCHANGED <<args, fs, created, outfh, indexfh, pos, inbuf, index, outbuf,
                   state, record_num, output_filenum>>

\* Lines 84-100 on a non-empty first chunk whose index destination, if one
\* is asked for, does not exist: create the index and the first output file.
SetupOpen ==
    /\ pc = "setup"
    /\ inbuf # <<>>
    /\ generate_index # <<>> => OpenExclusiveOk(fs, generate_index)
    /\ LET fs1 == IF generate_index # <<>> THEN CreateFile(fs, generate_index) ELSE fs
           c1 == IF generate_index # <<>> THEN NoteOpen(closes, generate_index) ELSE closes
           path == NextOutfile(fs1, InputPath, output_dir, output_filenum)
       IN  /\ indexfh' = IF generate_index # <<>> THEN OpenHandle(generate_index) ELSE NoHandle
           /\ fs' = CreateFile(fs1, path)
           /\ outfh' = OpenHandle(path)
           /\ created' = Append(created, path)
           /\ closes' = NoteOpen(c1, path)
    /\ outbuf' = <<>>
    /\ state' = <<"start">>
    /\ index' = 0
    /\ pc' = "scan"
    /\ UNCHANGED <<args, exc, infh, pos, inbuf, record_num, output_filenum>>

\* Line 86 raising FileExistsError: the index destination exists.
SetupIndexExists ==
    /\ pc = "setup"
    /\ inbuf # <<>>
    /\ generate_index # <<>>
    /\ ~OpenExclusiveOk(fs, generate_index)
    /\ exc' = "FileExistsError"
    /\ pc' = "finally"
    /\ UNCHANGED <<args, fs, created, closes, infh, outfh, indexfh, pos, inbuf,
                   index, outbuf, state, record_num, output_filenum>>

\* Line 86 raising another OSError (the destination's directory is missing
\* or not writable, no descriptor is left): no file is created and indexfh
\* stays None.
SetupIndexOpenFails ==
    /\ pc = "setup"
    /\ inbuf # <<>>
    /\ generate_index # <<>>
    /\ exc' = "OSError"
    /\ pc' = "finally"
    /\ UNCHANGED <<args, fs, created, closes, infh, outfh, indexfh, pos, inbuf,
                   index, outbuf, state, record_num, output_filenum>>

\* Lines 84-89 with next_outfile raising an error other than FileExistsError
\* (the directory is missing or not writable): the index is already open.
SetupAllocFails ==
    /\ pc = "setup"
    /\ inbuf # <<>>
    /\ generate_index # <<>> => OpenExclusiveOk(fs, generate_index)
    /\ fs' = IF generate_index # <<>> THEN CreateFile(fs, generate_index) ELSE fs
    /\ closes' = IF generate_index # <<>> THEN NoteOpen(closes, generate_index) ELSE closes
    /\ indexfh' = IF generate_index # <<>> THEN OpenHandle(generate_index) ELSE NoHandle
    /\ exc' = "OSError"
    /\ pc' = "finally"
    /\ UNCHANGED <<args, created, infh, outfh, pos, inbuf, index, outbuf, state,
                   record_num, output_filenum>>

\* Lines 84-90 with the print of line 90 raising (standard output is full
\* or closed): the index, if asked for, and the first output file are
\* created and open; outbuf and state are not assigned yet.
SetupPrintFails ==
    /\ pc = "setup"
    /\ inbuf # <<>>
    /\ generate_index # <<>> => OpenExclusiveOk(fs, generate_index)
    /\ LET fs1 == IF generate_index # <<>> THEN CreateFile(fs, generate_index) ELSE fs
           c1 == IF generate_index # <<>> THEN NoteOpen(closes, generate_index) ELSE closes
           path == NextOutfile(fs1, InputPath, output_dir, output_filenum)
       IN  /\ indexfh' = IF generate_index # <<>> THEN OpenHandle(generate_index) ELSE NoHandle
           /\ fs' = CreateFile(fs1, path)
           /\ outfh' = OpenHandle(path)
           /\ created' = Append(created, path)
           /\ closes' = NoteOpen(c1, path)
    /\ exc' = "OSError"
    /\ pc' = "finally"
    /\ UNCHANGED <<args, infh, pos, inbuf, index, outbuf, state, record_num,
                   output_filenum>>

\* Lines 88-89 moved out of "if inbuf": an empty input gets an output file.
SetupEmptyAllocates ==
    /\ pc = "setup"
    /\ inbuf = <<>>
    /\ LET path == NextOutfile(fs, InputPath, output_dir, output_filenum)
       IN  /\ fs' = CreateFile(fs, path)
           /\ outfh' = OpenHandle(path)
           /\ created' = Append(created, path)
           /\ closes' = NoteOpen(closes, path)
    /\ outbuf' = <<>>
    /\ state' = <<"start">>
    /\ pc' = "scan"
    /\ UNCHANGED <<args, exc, infh, indexfh, pos, inbuf, index, record_num,
                   output_filenum>>

\* Lines 84-100 on an empty first chunk: nothing is opened.
SetupEmpty ==
    /\ pc = "setup"
    /\ inbuf = <<>>
    /\ outbuf' = <<>>
    /\ state' = <<"start">>
    /\ pc' = "scan"
    /\ UNCHANGED <<args, fs, created, closes, exc, infh, outfh, indexfh, pos,
                   inbuf, index, record_num, output_filenum>>

\* Line 126 with a threshold in place of the remainder: every record from
\* the nps-th on ends a split.
SplitBoundaryNoModulo(rnum, nps) == rnum >= nps

\* Line 126: the record just counted ends a split.
SplitBoundary(rnum, nps) == rnum % nps = 0

\* Lines 127-130: the line written to the index for record rnum
IndexEntry(rnum, tell, rsize, idx) == IndexLine(rnum, IndexOffset(tell, rsize, idx))

\* Line 128 returning: the numbers of bytes of the entry that can have
\* reached the index; no index, nothing written.
IndexWriteOutcomes(ifh, rnum, tell, rsize, idx) ==
    IF ifh.st = "open"
    THEN WriteOutcomes(ifh, IndexEntry(rnum, tell, rsize, idx))
    ELSE {0}

\* WriteIndexEntry logging the record number before its increment.
WriteIndexEntryZeroBased(files, ifh, rnum, tell, rsize, idx, k) ==
    IF ifh.st = "open"
    THEN Write(files, ifh, IndexLine(rnum - 1, IndexOffset(tell, rsize, idx)), k)
    ELSE [files |-> files, fh |-> ifh]

\* Lines 127-130: the files and the index handle after the entry for record
\* rnum is written with k of its bytes in the file, when an index is being
\* written.
WriteIndexEntry(files, ifh, rnum, tell, rsize, idx, k) ==
    IF ifh.st = "open"
    THEN Write(files, ifh, IndexEntry(rnum, tell, rsize, idx), k)
    ELSE [files |-> files, fh |-> ifh]

\* fh.write(data) can raise after k bytes reached the file: the data does
\* not fit the room left, and either the pending bytes fail to go out
\* (k of them do) or they go out and the data fails to while more than
\* buffer_size bytes of it remain (k - Len(h.buf) bytes of it went out).
WriteRaises(h, data, k) ==
    /\ ~Fits(h, data)
    /\ k >= 0
    /\ IF Len(data) <= buffer_size
       THEN k < Len(h.buf)
       ELSE k < Len(h.buf) + Len(data) - buffer_size
FailedWriteFile(files, h, data, k) == WriteFile(files, h.name, SubSeq(h.buf \o data, 1, k))
FailedWrite(h, k) ==
    [h EXCEPT !.buf = IF k < Len(@) THEN SubSeq(@, k + 1, Len(@)) ELSE <<>>]

\* Lines 103-125 and, when line 126 is false, the end of the loop body: one
\* byte is appended and scanned, and a record end is counted.
ProcessByte ==
    /\ pc = "scan"
    /\ index < Len(inbuf)
    /\ LET char == inbuf[index + 1]
           r == ScanStep(state, char)
           rnum == IF r.is_record_end THEN record_num + 1 ELSE record_num
       IN  /\ ~(r.is_record_end /\ SplitBoundary(rnum, num_per_split))
           /\ outbuf' = Append(outbuf, char)
           /\ state' = r.state
           /\ record_num' = rnum
    /\ index' = index + 1
    /\ UNCHANGED <<args, fs, created, closes, pc, exc, infh, outfh, indexfh, pos,
                   inbuf, output_filenum>>

\* ProcessByteRotate without the close of line 134: the old handle is
\* dropped open when outfh is reassigned.
ProcessByteRotateNoClose ==
    /\ pc = "scan"
    /\ index < Len(inbuf)
    /\ LET char == inbuf[index + 1]
           r == ScanStep(state, char)
           rnum == record_num + 1
           data == Append(outbuf, char)
       IN  /\ r.is_record_end /\ SplitBoundary(rnum, num_per_split)
           /\ state' = r.state
           /\ record_num' = rnum
           /\ \E k1 \in IndexWriteOutcomes(indexfh, rnum, pos, read_size, index) :
              \E k2 \in WriteOutcomes(outfh, data) :
                  LET w1 == WriteIndexEntry(fs, indexfh, rnum, pos, read_size, index, k1)
                      w2 == Write(w1.files, outfh, data, k2)
                      fs3 == FlushFile(w2.files, w2.fh)
                      path == NextOutfile(fs3, InputPath, output_dir, output_filenum + 1)
                  IN  /\ indexfh' = w1.fh
                      /\ fs' = CreateFile(fs3, path)
                      /\ outfh' = OpenHandle(path)
                      /\ created' = Append(created, path)
                      /\ closes' = NoteOpen(closes, path)
    /\ outbuf' = <<>>
    /\ output_filenum' = output_filenum + 1
    /\ index' = index + 1
    /\ UNCHANGED <<args, pc, exc, infh, pos, inbuf>>

\* Lines 103-139 on the LF that makes record_num a multiple of num_per_split:
\* the index entry (k1 of its bytes reach the index at once), the write of
\* the buffer (k2 of its bytes reach the file at once), the flush and the
\* close, and the next file.
ProcessByteRotate ==
    /\ pc = "scan"
    /\ index < Len(inbuf)
    /\ LET char == inbuf[index + 1]
           r == ScanStep(state, char)
           rnum == record_num + 1
           data == Append(outbuf, char)
       IN  /\ r.is_record_end /\ SplitBoundary(rnum, num_per_split)
           /\ state' = r.state
           /\ record_num' = rnum
           /\ \E k1 \in IndexWriteOutcomes(indexfh, rnum, pos, read_size, index) :
              \E k2 \in WriteOutcomes(outfh, data) :
                  LET w1 == WriteIndexEntry(fs, indexfh, rnum, pos, read_size, index, k1)
                      w2 == Write(w1.files, outfh, data, k2)
                      fs3 == FlushFile(w2.files, w2.fh)
                      path == NextOutfile(fs3, InputPath, output_dir, output_filenum + 1)
                  IN  /\ indexfh' = w1.fh
                      /\ fs' = CreateFile(fs3, path)
                      /\ outfh' = OpenHandle(path)
                      /\ created' = Append(created, path)
                      /\ closes' = NoteOpen(NoteClose(closes, outfh.name), path)
    /\ outbuf' = <<>>
    /\ output_filenum' = output_filenum + 1
    /\ index' = index + 1
    /\ UNCHANGED <<args, pc, exc, infh, pos, inbuf>>

\* Lines 103-137 with next_outfile raising an error other than
\* FileExistsError: the old file is written and closed, output_filenum is
\* incremented, and outfh still names the closed handle.
ProcessByteAllocFails ==
    /\ pc = "scan"
    /\ index < Len(inbuf)
    /\ LET char == inbuf[index + 1]
           r == ScanStep(state, char)
           rnum == record_num + 1
           data == Append(outbuf, char)
       IN  /\ r.is_record_end /\ SplitBoundary(rnum, num_per_split)
           /\ state' = r.state
           /\ record_num' = rnum
           /\ \E k1 \in IndexWriteOutcomes(indexfh, rnum, pos, read_size, index) :
              \E k2 \in WriteOutcomes(outfh, data) :
                  LET w1 == WriteIndexEntry(fs, indexfh, rnum, pos, read_size, index, k1)
                      w2 == Write(w1.files, outfh, data, k2)
                  IN  /\ indexfh' = w1.fh
                      /\ fs' = FlushFile(w2.files, w2.fh)
                      /\ outfh' = CloseHandle(Flushed(w2.fh))
    /\ closes' = NoteClose(closes, outfh.name)
    /\ outbuf' = <<>>
    /\ output_filenum' = output_filenum + 1
    /\ exc' = "OSError"
    /\ pc' = "finally"
    /\ UNCHANGED <<args, created, infh, pos, inbuf, index>>

\* Lines 103-129 with infh.tell() of line 129 raising (the input is not
\* seekable): the byte is buffered and counted, and nothing is written.
IndexTellFails ==
    /\ pc = "scan"
    /\ index < Len(inbuf)
    /\ indexfh.st = "open"
    /\ LET char == inbuf[index + 1]
           r == ScanStep(state, char)
           rnum == record_num + 1
       IN  /\ r.is_record_end /\ SplitBoundary(rnum, num_per_split)
           /\ outbuf' = Append(outbuf, char)
           /\ state' = r.state
           /\ record_num' = rnum
    /\ exc' = "OSError"
    /\ pc' = "finally"
    /\ UNCHANGED <<args, fs, created, closes, infh, outfh, indexfh, pos, inbuf,
                   index, output_filenum>>

\* Lines 103-130 with the index write of line 128 raising after k bytes
\* reached the index: the byte is buffered and counted; the output file is
\* neither written nor closed.
IndexWriteFails ==
    /\ pc = "scan"
    /\ index < Len(inbuf)
    /\ indexfh.st = "open"
    /\ LET char == inbuf[index + 1]
           r == ScanStep(state, char)
           rnum == record_num + 1
           line == IndexEntry(rnum, pos, read_size, index)
       IN  /\ r.is_record_end /\ SplitBoundary(rnum, num_per_split)
           /\ outbuf' = Append(outbuf, char)
           /\ state' = r.state
           /\ record_num' = rnum
           /\ \E k \in 0..(Len(indexfh.buf \o line) - 1) :
                  /\ WriteRaises(indexfh, line, k)
                  /\ fs' = FailedWriteFile(fs, indexfh, line, k)
                  /\ indexfh' = FailedWrite(indexfh, k)
    /\ exc' = "OSError"
    /\ pc' = "finally"
    /\ UNCHANGED <<args, created, closes, infh, outfh, pos, inbuf, index,
                   output_filenum>>

\* Lines 103-131 with the write of line 131 raising after k bytes reached
\* the file.  The index entry is written (k1 of its bytes reach the index
\* at once), outbuf is not cleared, and the file stays open.
RotateWriteFails ==
    /\ pc = "scan"
    /\ index < Len(inbuf)
    /\ LET char == inbuf[index + 1]
           r == ScanStep(state, char)
           rnum == record_num + 1
           data == Append(outbuf, char)
       IN  /\ r.is_record_end /\ SplitBoundary(rnum, num_per_split)
           /\ outbuf' = data
           /\ state' = r.state
           /\ record_num' = rnum
           /\ \E k1 \in IndexWriteOutcomes(indexfh, rnum, pos, read_size, index) :
              \E k \in 0..(Len(outfh.buf \o data) - 1) :
                  LET w1 == WriteIndexEntry(fs, indexfh, rnum, pos, read_size, index, k1)
                  IN  /\ WriteRaises(outfh, data, k)
                      /\ indexfh' = w1.fh
                      /\ fs' = FailedWriteFile(w1.files, outfh, data, k)
                      /\ outfh' = FailedWrite(outfh, k)
    /\ exc' = "OSError"
    /\ pc' = "finally"
    /\ UNCHANGED <<args, created, closes, infh, pos, inbuf, index, output_filenum>>

\* Lines 103-133 with the flush of line 133 raising after k pending bytes
\* reached the file: outbuf is cleared, the rest stays in the handle's
\* buffer, the file stays open and output_filenum is not incremented.
RotateFlushFails ==
    /\ pc = "scan"
    /\ index < Len(inbuf)
    /\ LET char == inbuf[index + 1]
           r == ScanStep(state, char)
           rnum == record_num + 1
           data == Append(outbuf, char)
       IN  /\ r.is_record_end /\ SplitBoundary(rnum, num_per_split)
           /\ state' = r.state
           /\ record_num' = rnum
           /\ \E k1 \in IndexWriteOutcomes(indexfh, rnum, pos, read_size, index) :
              \E k2 \in WriteOutcomes(outfh, data) :
                  LET w1 == WriteIndexEntry(fs, indexfh, rnum, pos, read_size, index, k1)
                      w2 == Write(w1.files, outfh, data, k2)
                  IN  /\ indexfh' = w1.fh
                      /\ \E k \in 0..(Len(w2.fh.buf) - 1) :
                             /\ fs' = PartialFlushFile(w2.files, w2.fh, k)
                             /\ outfh' = PartialFlushed(w2.fh, k)
    /\ outbuf' = <<>>
    /\ exc' = "OSError"
    /\ pc' = "finally"
    /\ UNCHANGED <<args, created, closes, infh, pos, inbuf, index, output_filenum>>

\* Lines 103-135 with the close of line 134 raising (the handle is closed
\* all the same) or the print of line 135 raising: the file is written,
\* flushed and closed, output_filenum is not incremented, and outfh still
\* names the closed handle.
RotateCloseFails ==
    /\ pc = "scan"
    /\ index < Len(inbuf)
    /\ LET char == inbuf[index + 1]
           r == ScanStep(state, char)
           rnum == record_num + 1
           data == Append(outbuf, char)
       IN  /\ r.is_record_end /\ SplitBoundary(rnum, num_per_split)
           /\ state' = r.state
           /\ record_num' = rnum
           /\ \E k1 \in IndexWriteOutcomes(indexfh, rnum, pos, read_size, index) :
              \E k2 \in WriteOutcomes(outfh, data) :
                  LET w1 == WriteIndexEntry(fs, indexfh, rnum, pos, read_size, index, k1)
                      w2 == Write(w1.files, outfh, data, k2)
                  IN  /\ indexfh' = w1.fh
                      /\ fs' = FlushFile(w2.files, w2.fh)
                      /\ outfh' = CloseHandle(Flushed(w2.fh))
    /\ closes' = NoteClose(closes, outfh.name)
    /\ outbuf' = <<>>
    /\ exc' = "OSError"
    /\ pc' = "finally"
    /\ UNCHANGED <<args, created, infh, pos, inbuf, index, output_filenum>>

\* EndChunk with line 100 inside the while loop: every chunk starts from a
\* fresh state stack.
EndChunkResetsState ==
    /\ pc = "scan"
    /\ inbuf # <<>>
    /\ index = Len(inbuf)
    /\ \E k \in WriteOutcomes(outfh, outbuf) :
           /\ fs' = Write(fs, outfh, outbuf, k).files
           /\ outfh' = Write(fs, outfh, outbuf, k).fh
    /\ outbuf' = <<>>
    /\ inbuf' = ReadChunk(input, pos, read_size)
    /\ pos' = pos + Len(inbuf')
    /\ index' = 0
    /\ state' = <<"start">>
    /\ UNCHANGED <<args, created, closes, pc, exc, infh, indexfh,
                   record_num, output_filenum>>

\* EndChunk without line 141: the written buffer is not cleared.
EndChunkKeepsBuffer ==
    /\ pc = "scan"
    /\ inbuf # <<>>
    /\ index = Len(inbuf)
    /\ \E k \in WriteOutcomes(outfh, outbuf) :
           /\ fs' = Write(fs, outfh, outbuf, k).files
           /\ outfh' = Write(fs, outfh, outbuf, k).fh
    /\ inbuf' = ReadChunk(input, pos, read_size)
    /\ pos' = pos + Len(inbuf')
    /\ index' = 0
    /\ UNCHANGED <<args, created, closes, pc, exc, infh, indexfh, state,
                   record_num, output_filenum, outbuf>>

\* Lines 140-142: the chunk is exhausted; write what is buffered (k of its
\* bytes reach the file at once) and read the next chunk.
EndChunk ==
    /\ pc = "scan"
    /\ inbuf # <<>>
    /\ index = Len(inbuf)
    /\ \E k \in WriteOutcomes(outfh, outbuf) :
           /\ fs' = Write(fs, outfh, outbuf, k).files
           /\ outfh' = Write(fs, outfh, outbuf, k).fh
    /\ outbuf' = <<>>
    /\ inbuf' = ReadChunk(input, pos, read_size)
    /\ pos' = pos + Len(inbuf')
    /\ index' = 0
    /\ UNCHANGED <<args, created, closes, pc, exc, infh, indexfh, state,
                   record_num, output_filenum>>

\* Line 140 raising (the device is full, the file size limit is reached)
\* after k bytes reached the file.  outbuf is not cleared.
WriteFails ==
    /\ pc = "scan"
    /\ inbuf # <<>>
    /\ index = Len(inbuf)
    /\ \E k \in 0..(Len(outfh.buf \o outbuf) - 1) :
           /\ WriteRaises(outfh, outbuf, k)
           /\ fs' = FailedWriteFile(fs, outfh, outbuf, k)
           /\ outfh' = FailedWrite(outfh, k)
    /\ exc' = "OSError"
    /\ pc' = "finally"
    /\ UNCHANGED <<args, created, closes, infh, indexfh, pos, inbuf, index,
                   outbuf, state, record_num, output_filenum>>

\* Lines 140-142 with the read of line 142 raising: the buffer is written
\* (k of its bytes reach the file at once), the read had to go to the
\* file, and the bytes read ahead are consumed and lost.
ReadFails ==
    /\ pc = "scan"
    /\ inbuf # <<>>
    /\ index = Len(inbuf)
    /\ NeedsRawRead(pos, read_size, Len(input))
    /\ \E k \in WriteOutcomes(outfh, outbuf) :
           /\ fs' = Write(fs, outfh, outbuf, k).files
           /\ outfh' = Write(fs, outfh, outbuf, k).fh
    /\ outbuf' = <<>>
    /\ pos' = ReadAhead(pos, read_size, Len(input))
    /\ exc' = "OSError"
    /\ pc' = "finally"
    /\ UNCHANGED <<args, created, closes, infh, indexfh, inbuf, index, state,
                   record_num, output_filenum>>

\* Line 144 with "not outbuf or": an empty buffer counts as a record too.
FinalPartialRecordOrEmpty(buf) == IF buf = <<>> THEN TRUE ELSE buf[Len(buf)] # LF

\* Line 144: the buffer holds a final record with no terminator.
FinalPartialRecord(buf) == buf # <<>> /\ buf[Len(buf)] # LF

\* Lines 143-150: the input is exhausted; count a buffered unterminated
\* record, write the left-overs and report.
Finish ==
    /\ pc = "scan"
    /\ inbuf = <<>>
    /\ record_num' = IF FinalPartialRecord(outbuf) THEN record_num + 1 ELSE record_num
    /\ \E k \in WriteOutcomes(outfh, outbuf) :
           /\ fs' = IF outfh.st # "none" THEN Write(fs, outfh, outbuf, k).files ELSE fs
           /\ outfh' = IF outfh.st # "none" THEN Write(fs, outfh, outbuf, k).fh ELSE outfh
    /\ pc' = "finally"
    /\ UNCHANGED <<args, created, closes, exc, infh, indexfh, pos, inbuf,
                   index, outbuf, state, output_filenum>>

\* Lines 143-150 with the print of line 149 raising.
FinishPrintFails ==
    /\ pc = "scan"
    /\ inbuf = <<>>
    /\ record_num' = IF FinalPartialRecord(outbuf) THEN record_num + 1 ELSE record_num
    /\ \E k \in WriteOutcomes(outfh, outbuf) :
           /\ fs' = IF outfh.st # "none" THEN Write(fs, outfh, outbuf, k).files ELSE fs
           /\ outfh' = IF outfh.st # "none" THEN Write(fs, outfh, outbuf, k).fh ELSE outfh
    /\ exc' = "OSError"
    /\ pc' = "finally"
    /\ UNCHANGED <<args, created, closes, infh, indexfh, pos, inbuf, index,
                   outbuf, state, output_filenum>>

\* Lines 151-159 with every call but a flush() on a closed file succeeding.
\* Every file object is truthy, open or closed.  close() is issued on the
\* input; flush() then close() on the index and on the output.  flush() on a
\* closed file raises ValueError, which leaves the block.
Finally ==
    /\ pc = "finally"
    /\ infh' = IF infh.st # "none" THEN CloseHandle(infh) ELSE infh
    /\ indexfh' = IF indexfh.st # "none" THEN CloseHandle(Flushed(indexfh)) ELSE indexfh
    /\ outfh' = IF outfh.st # "none" THEN CloseHandle(Flushed(outfh)) ELSE outfh
    /\ LET f1 == IF indexfh.st # "none" THEN FlushFile(fs, indexfh) ELSE fs
       IN  fs' = IF outfh.st = "open" THEN FlushFile(f1, outfh) ELSE f1
    /\ LET c1 == IF infh.st # "none" THEN NoteClose(closes, infh.name) ELSE closes
           c2 == IF indexfh.st # "none" THEN NoteClose(c1, indexfh.name) ELSE c1
       IN  closes' = IF outfh.st = "open" THEN NoteClose(c2, outfh.name) ELSE c2
    /\ exc' = IF outfh.st = "closed" THEN "ValueError" ELSE exc
    /\ pc' = "exit"
    /\ UNCHANGED <<args, created, pos, inbuf, index, outbuf, state,
                   record_num, output_filenum>>

\* Lines 151-153 with the close of line 153 raising: the input handle is
\* closed all the same; the index and the output are left as they are.
FinallyInputCloseFails ==
    /\ pc = "finally"
    /\ infh.st = "open"
    /\ infh' = CloseHandle(infh)
    /\ closes' = NoteClose(closes, infh.name)
    /\ exc' = "OSError"
    /\ pc' = "exit"
    /\ UNCHANGED <<args, fs, created, outfh, indexfh, pos, inbuf, index, outbuf,
                   state, record_num, output_filenum>>

\* Lines 151-155 with the index flush of line 155 raising after k pending
\* bytes reached the file: the input is closed; the index and the output
\* are left open with their pending bytes.
FinallyIndexFlushFails ==
    /\ pc = "finally"
    /\ indexfh.st = "open"
    /\ infh' = CloseHandle(infh)
    /\ closes' = NoteClose(closes, infh.name)
    /\ \E k \in 0..(Len(indexfh.buf) - 1) :
           /\ fs' = PartialFlushFile(fs, indexfh, k)
           /\ indexfh' = PartialFlushed(indexfh, k)
    /\ exc' = "OSError"
    /\ pc' = "exit"
    /\ UNCHANGED <<args, created, outfh, pos, inbuf, index, outbuf, state,
                   record_num, output_filenum>>

\* Lines 151-156 with the index close of line 156 raising: the index is
\* flushed and its handle closed all the same; the output is left as it is.
FinallyIndexCloseFails ==
    /\ pc = "finally"
    /\ indexfh.st = "open"
    /\ infh' = CloseHandle(infh)
    /\ indexfh' = CloseHandle(Flushed(indexfh))
    /\ closes' = NoteClose(NoteClose(closes, infh.name), indexfh.name)
    /\ fs' = FlushFile(fs, indexfh)
    /\ exc' = "OSError"
    /\ pc' = "exit"
    /\ UNCHANGED <<args, created, outfh, pos, inbuf, index, outbuf, state,
                   record_num, output_filenum>>

\* Lines 151-158 with the output flush of line 158 raising after k pending
\* bytes reached the file: the input and the index are closed; the output
\* is left open with the rest.
FinallyOutputFlushFails ==
    /\ pc = "finally"
    /\ outfh.st = "open"
    /\ infh' = CloseHandle(infh)
    /\ indexfh' = IF indexfh.st # "none" THEN CloseHandle(Flushed(indexfh)) ELSE indexfh
    /\ LET c1 == NoteClose(closes, infh.name)
       IN  closes' = IF indexfh.st # "none" THEN NoteClose(c1, indexfh.name) ELSE c1
    /\ LET f1 == IF indexfh.st # "none" THEN FlushFile(fs, indexfh) ELSE fs
       IN  \E k \in 0..(Len(outfh.buf) - 1) :
               /\ fs' = PartialFlushFile(f1, outfh, k)
               /\ outfh' = PartialFlushed(outfh, k)
    /\ exc' = "OSError"
    /\ pc' = "exit"
    /\ UNCHANGED <<args, created, pos, inbuf, index, outbuf, state,
                   record_num, output_filenum>>

\* Lines 151-159 with the output close of line 159 raising: everything is
\* flushed and every handle closed, and the error leaves the block.
FinallyOutputCloseFails ==
    /\ pc = "finally"
    /\ outfh.st = "open"
    /\ infh' = CloseHandle(infh)
    /\ indexfh' = IF indexfh.st # "none" THEN CloseHandle(Flushed(indexfh)) ELSE indexfh
    /\ outfh' = CloseHandle(Flushed(outfh))
    /\ LET c1 == NoteClose(closes, infh.name)
           c2 == IF indexfh.st # "none" THEN NoteClose(c1, indexfh.name) ELSE c1
       IN  closes' = NoteClose(c2, outfh.name)
    /\ LET f1 == IF indexfh.st # "none" THEN FlushFile(fs, indexfh) ELSE fs
       IN  fs' = FlushFile(f1, outfh)
    /\ exc' = "OSError"
    /\ pc' = "exit"
    /\ UNCHANGED <<args, created, pos, inbuf, index, outbuf, state,
                   record_num, output_filenum>>

Next ==
    \/ OpenInput
    \/ OpenInputFails
    \/ FirstReadFails
    \/ SetupOpen
    \/ SetupIndexExists
    \/ SetupIndexOpenFails
    \/ SetupAllocFails
    \/ SetupPrintFails
    \/ SetupEmpty
    \/ ProcessByte
    \/ ProcessByteRotate
    \/ ProcessByteAllocFails
    \/ IndexTellFails
    \/ IndexWriteFails
    \/ RotateWriteFails
    \/ RotateFlushFails
    \/ RotateCloseFails
    \/ EndChunk
    \/ WriteFails
    \/ ReadFails
    \/ Finish
    \/ FinishPrintFails
    \/ Finally
    \/ FinallyInputCloseFails
    \/ FinallyIndexFlushFails
    \/ FinallyIndexCloseFails
    \/ FinallyOutputFlushFails
    \/ FinallyOutputCloseFails

Spec == Init /\ [][Next]_vars

\* ======================================================= properties
\* The contents of the named files, one after the other
RECURSIVE ConcatFiles(_, _)
ConcatFiles(names, files) ==
    IF names = <<>> THEN <<>>
    ELSE files[Head(names)] \o ConcatFiles(Tail(names), files)

\* The bytes written through a handle: those in its file and those still
\* pending in its buffer
Written(h) == fs[h.name] \o h.buf

\* The run has ended without an exception
CompletedNormally == pc = "exit" /\ exc = "none"

\* The scan of the first k bytes of data from the initial stack: the stack
\* reached and the positions (1-based) of the bytes that ended a record.
RECURSIVE ScanPrefix(_, _)
ScanPrefix(data, k) ==
    IF k = 0 THEN [state |-> <<"start">>, ends |-> <<>>]
    ELSE LET before == ScanPrefix(data, k - 1)
             r == ScanStep(before.state, data[k])
         IN  [state |-> r.state,
              ends |-> IF r.is_record_end THEN Append(before.ends, k) ELSE before.ends]

\* The number of bytes of the input the for loop has visited
Consumed == pos - Len(inbuf) + index

\* A step that scans one byte of the chunk
ScansByte == pc = "scan" /\ index < Len(inbuf) /\ (index' = index + 1 \/ pc' = "finally")
CurrentByte == inbuf[index + 1]

\* C1: after a run that completes normally, the output files concatenated in
\* the order of their creation are byte for byte the input.
C1_Reconstruction ==
    CompletedNormally => ConcatFiles(created, fs) = input

\* C1 witness: a normal run over several chunks, each longer than the
\* output buffer, that wrote several files.
C1_Witness ==
    /\ CompletedNormally
    /\ Len(created) >= 2
    /\ Len(input) > read_size
    /\ buffer_size < read_size
    /\ ConcatFiles(created, fs) = input

\* C2: a rotation happens only on an LF that the scanner sees in the Start
\* state and leaves the scanner in Start; the file being closed ends with
\* that LF, and every file but the last ends on LF with balanced quotes.
C2_NoMidRecordSplit ==
    /\ [][output_filenum' # output_filenum =>
            /\ ScansByte
            /\ CurrentByte = LF
            /\ ResolveEndquote(state, CurrentByte) = <<"start">>
            /\ state' = <<"start">>
            /\ fs'[outfh.name] # <<>>
            /\ fs'[outfh.name][Len(fs'[outfh.name])] = LF]_vars
    /\ [](\A i \in 1..(Len(created) - 1) :
            LET f == fs[created[i]]
            IN  /\ f # <<>>
                /\ f[Len(f)] = LF
                /\ ScanPrefix(f, Len(f)).state = <<"start">>)

\* C2 witness: a file holding a quoted field, and more than a chunk, itself
\* more than the output buffer, has been closed by a rotation.
C2_Witness ==
    /\ Len(created) >= 2
    /\ buffer_size < read_size
    /\ Len(fs[created[1]]) > read_size
    /\ \E k \in 1..Len(fs[created[1]]) : fs[created[1]][k] = QUOTE
    /\ state = <<"start">>

\* C3 (as claimed): the reported record count is the number of record
\* terminators plus one for an input whose last byte is not LF.
C3_RecordCountClaim ==
    CompletedNormally =>
        record_num = Len(ScanPrefix(input, Len(input)).ends)
                     + (IF input # <<>> /\ input[Len(input)] # LF THEN 1 ELSE 0)

\* The index lines for the records nps, 2*nps, ... among the record ends
\* given, each with the offset of the byte that follows its LF.
RECURSIVE ExpectedIndex(_, _, _)
ExpectedIndex(ends, nps, n) ==
    IF n = 0 THEN <<>>
    ELSE ExpectedIndex(ends, nps, n - 1)
         \o (IF n % nps = 0 THEN IndexLine(n, ends[n]) ELSE <<>>)

\* C4 (as claimed): every index entry carries the absolute input offset of
\* the byte following the LF that ended its record.
C4_IndexOffsetClaim ==
    ((pc = "scan" \/ CompletedNormally) /\ indexfh.st # "none") =>
        LET ends == ScanPrefix(input, Consumed).ends
        IN  Written(indexfh) = ExpectedIndex(ends, num_per_split, Len(ends))

\* C5 (as claimed): when the index destination exists at the start, no
\* output file is created, nothing is modified, and the run ends in an
\* error, whatever the input.
C5_IndexExistsClaim ==
    (generate_index # <<>> /\ generate_index \in DOMAIN fs0) =>
        /\ created = <<>>
        /\ fs = fs0
        /\ pc = "exit" => exc # "none"

\* C6: no file that existed before the run is opened, truncated or written:
\* every handle of next_outfile is on a name that did not exist, and every
\* pre-existing file keeps its contents.
C6_NoOverwrite ==
    /\ \A n \in DOMAIN fs0 : n \in DOMAIN fs /\ fs[n] = fs0[n]
    /\ \A i \in 1..Len(created) : created[i] \notin DOMAIN fs0
    /\ outfh.st # "none" => outfh.name \notin DOMAIN fs0

\* C6 witness: the candidate and its first disambiguation both existed, so
\* the first output went to the second disambiguation, and was written.
C6_Witness ==
    /\ created # <<>>
    /\ InitialOutputPath(InputPath, output_dir, 1, Width) \in DOMAIN fs0
    /\ created[1] = RetryPath(InitialOutputPath(InputPath, output_dir, 1, Width), 2)
    /\ fs[created[1]] # <<>>

\* The transition table of the scanner's contract, on the states Start,
\* InQuote and EndQuote: its eight steps in their priority order.
TableTransition(s, c) ==
    LET s1 == IF s = "EndQuote" /\ c = QUOTE THEN "LiteralQuote"
              ELSE IF s = "EndQuote" THEN "Start"
              ELSE s
    IN  IF s1 = "LiteralQuote" THEN [state |-> "InQuote", is_record_end |-> FALSE]
        ELSE IF s1 = "InQuote" /\ c = QUOTE THEN [state |-> "EndQuote", is_record_end |-> FALSE]
        ELSE IF s1 = "InQuote" THEN [state |-> "InQuote", is_record_end |-> FALSE]
        ELSE IF c = QUOTE THEN [state |-> "InQuote", is_record_end |-> FALSE]
        ELSE IF c = LF THEN [state |-> "Start", is_record_end |-> TRUE]
        ELSE [state |-> "Start", is_record_end |-> FALSE]

\* The table state a stack stands for
TableState(stack) ==
    CASE stack = <<"start">> -> "Start"
      [] stack = <<"start", "inquote">> -> "InQuote"
      [] stack = <<"start", "inquote", "endquote">> -> "EndQuote"
      [] OTHER -> "Invalid"

\* C7: in every state the scan reaches, and for every byte, the two if/elif
\* chains on the stack give the next state and the record-end flag of the
\* transition table.
C7_ScannerMatchesTable ==
    pc = "scan" =>
        \A c \in Bytes :
            /\ TableState(ScanStep(state, c).state) = TableTransition(TableState(state), c).state
            /\ ScanStep(state, c).is_record_end = TableTransition(TableState(state), c).is_record_end

\* C7 witness: an LF seen in EndQuote has closed the field and ended a
\* record in the same step.
C7_Witness ==
    /\ pc = "scan"
    /\ Consumed >= 3
    /\ input[Consumed] = LF
    /\ ScanPrefix(input, Consumed - 1).state = <<"start", "inquote", "endquote">>
    /\ state = <<"start">>
    /\ record_num = 1

\* C8: a quote seen in EndQuote puts the scanner back in InQuote without
\* ending a record; every record end leaves the scanner in Start; and the
\* input "a""b" LF is one record.
C8_EscapedQuote ==
    /\ [][(ScansByte /\ Top(state) = "endquote" /\ CurrentByte = QUOTE) =>
            (state' = <<"start", "inquote">> /\ record_num' = record_num)]_vars
    /\ [][(ScansByte /\ record_num' # record_num) => state' = <<"start">>]_vars
    /\ []((CompletedNormally /\ input = ExEscaped) => record_num = 1)

\* C8 witness: the input "a""b" LF has been processed as one record.
C8_Witness ==
    /\ CompletedNormally
    /\ input = ExEscaped
    /\ record_num = 1
    /\ state = <<"start">>

\* C9 (as claimed): a CR never changes the scanner state.
C9_CRNeverChangesState ==
    [][(ScansByte /\ CurrentByte = 13) => state' = state]_vars

\* C9 (amended): a CR is never a record end and is appended to the output
\* buffer as it is; it leaves the scanner state alone, except that in
\* EndQuote it closes the field as any byte but a quote does; an LF that
\* follows a CR outside quotes ends exactly one record; f,f CR LF is one
\* record.
C9_CROrdinary ==
    /\ [][(ScansByte /\ CurrentByte = 13) =>
            /\ record_num' = record_num
            /\ output_filenum' = output_filenum
            /\ outbuf' = Append(outbuf, 13)
            /\ fs' = fs
            /\ outfh' = outfh
            /\ indexfh' = indexfh
            /\ state' = (IF Top(state) = "endquote" THEN <<"start">> ELSE state)]_vars
    /\ [][(ScansByte /\ CurrentByte = LF /\ state = <<"start">>
             /\ Consumed >= 1 /\ input[Consumed] = 13) =>
            record_num' = record_num + 1]_vars
    /\ []((CompletedNormally /\ input = ExCRLF) =>
            (record_num = 1 /\ ConcatFiles(created, fs) = input))

\* C9 witness: a CR seen in EndQuote has closed the field.
C9_Witness ==
    /\ pc = "scan"
    /\ Consumed >= 3
    /\ input[Consumed] = 13
    /\ ScanPrefix(input, Consumed - 1).state = <<"start", "inquote", "endquote">>
    /\ state = <<"start">>
    /\ record_num = 0
    /\ outbuf # <<>>
    /\ outbuf[Len(outbuf)] = 13

\* C10 (as claimed): on every exit path each handle that was opened has
\* been closed exactly once, and the cleanup raised no error of its own
\* (the ValueError of an operation on a closed file).
C10_CleanupClaim ==
    pc = "exit" =>
        /\ \A n \in DOMAIN closes : closes[n] = 1
        /\ exc # "ValueError"

\* The record ends of a whole byte sequence scanned from the initial stack
RecordEnds(data) == ScanPrefix(data, Len(data)).ends

\* C11: each file closed by a rotation holds exactly num_per_split record
\* terminators, its last byte being one of them; after a normal run the
\* last file holds fewer than num_per_split of them.
C11_WholeRecords ==
    /\ \A i \in 1..(Len(created) - 1) :
          LET f == fs[created[i]]
          IN  /\ Len(RecordEnds(f)) = num_per_split
              /\ RecordEnds(f)[num_per_split] = Len(f)
    /\ (CompletedNormally /\ created # <<>>) =>
          Len(RecordEnds(fs[created[Len(created)]])) < num_per_split

\* C11 witness: a normal run with two records per file, written through a
\* buffer smaller than a chunk, that rotated and left a last file with one
\* terminated record.
C11_Witness ==
    /\ CompletedNormally
    /\ buffer_size < read_size
    /\ num_per_split = 2
    /\ Len(created) = 2
    /\ Len(RecordEnds(fs[created[1]])) = 2
    /\ Len(RecordEnds(fs[created[2]])) = 1

\* C12: while the stream is scanned the record counter changes only on an
\* LF whose resolved state is Start, and then by one; an LF seen in InQuote
\* changes neither the counter nor the output file nor any file; the
\* counter never decreases.
C12_CounterOnlyOnTerminator ==
    /\ [][(pc = "scan" /\ inbuf # <<>> /\ record_num' # record_num) =>
            /\ ScansByte
            /\ CurrentByte = LF
            /\ ResolveEndquote(state, CurrentByte) = <<"start">>
            /\ record_num' = record_num + 1]_vars
    /\ [][(ScansByte /\ CurrentByte = LF /\ Top(state) = "inquote") =>
            /\ record_num' = record_num
            /\ output_filenum' = output_filenum
            /\ created' = created
            /\ fs' = fs
            /\ outfh' = outfh
            /\ indexfh' = indexfh]_vars
    /\ [][record_num' >= record_num]_vars

\* C12 witness: an LF inside a quoted field, reached right after an escaped
\* quote pair, has been scanned without being counted.
C12_Witness ==
    /\ pc = "scan"
    /\ Consumed = 4
    /\ input = ExQuotedLF
    /\ state = <<"start", "inquote">>
    /\ record_num = 0
    /\ num_per_split = 1
    /\ generate_index # <<>>

\* The number written in decimal digits from position i of b on
RECURSIVE ParseNum(_, _, _)
ParseNum(b, i, acc) ==
    IF i <= Len(b) /\ b[i] >= 48 /\ b[i] <= 57
    THEN ParseNum(b, i + 1, 10 * acc + (b[i] - 48))
    ELSE acc

\* The first field of every LF-terminated line of b from position start on
RECURSIVE IndexRecordNums(_, _)
IndexRecordNums(b, start) ==
    IF \A i \in start..Len(b) : b[i] # 10 THEN <<>>
    ELSE LET e == CHOOSE i \in start..Len(b) :
                      b[i] = 10 /\ \A j \in start..(i - 1) : b[j] # 10
         IN  <<ParseNum(b, start, 0)>> \o IndexRecordNums(b, e + 1)

\* The output files that have been closed
ClosedOutputs == {i \in 1..Len(created) : closes[created[i]] > 0}

\* C13: with an index, the record numbers of the entries written to it are
\* num_per_split, 2*num_per_split, ... in this order, one entry for every
\* split boundary crossed (unless an error is in flight) and none besides;
\* while the run is under way every output file closed has its entry (the
\* entry is written before the close), with no entry besides unless an
\* error is in flight, and at the end there are as many as whole splits
\* among the terminated records.
C13_IndexEntries ==
    indexfh.st # "none" =>
        LET nums == IndexRecordNums(Written(indexfh), 1)
        IN  /\ nums = [j \in 1..Len(nums) |-> j * num_per_split]
            /\ exc = "none" => Len(nums) = record_num \div num_per_split
            /\ pc \in {"scan", "finally"} => Cardinality(ClosedOutputs) <= Len(nums)
            /\ (pc \in {"scan", "finally"} /\ exc = "none") =>
                   Len(nums) = Cardinality(ClosedOutputs)
            /\ (pc = "scan" \/ CompletedNormally) =>
                   Len(nums) = Len(ScanPrefix(input, Consumed).ends) \div num_per_split

\* C13 witness: the five-record input split by two has been indexed at
\* records 2 and 4, the fifth record giving no entry; the entries are
\* longer than the index buffer.
C13_Witness ==
    /\ CompletedNormally
    /\ buffer_size < read_size
    /\ input = ExFive
    /\ num_per_split = 2
    /\ indexfh.st # "none"
    /\ IndexRecordNums(fs[indexfh.name], 1) = <<2, 4>>

\* The output files on which a handle is open
OpenOutputs == {i \in 1..Len(created) : closes[created[i]] = 0}

\* C14: at most one output handle is open, and it is on the file allocated
\* last; a file allocated earlier is never written again; the step that
\* crosses a split boundary appends the buffer and the LF to the current
\* file, closes it and leaves the buffer empty, and the file it allocates,
\* if the allocation succeeds, is new and empty.
C14_RotationProtocol ==
    /\ [](OpenOutputs \subseteq {Len(created)})
    /\ [][\A i \in 1..(Len(created) - 1) : fs'[created[i]] = fs[created[i]]]_vars
    /\ [][output_filenum' # output_filenum =>
            LET old == created[Len(created)]
            IN  /\ ScansByte
                /\ fs'[old] = Written(outfh) \o outbuf \o <<CurrentByte>>
                /\ closes'[old] = 1
                /\ outbuf' = <<>>
                /\ output_filenum' = output_filenum + 1
                /\ Len(created') <= Len(created) + 1
                /\ created' # created =>
                      LET new == created'[Len(created')]
                      IN  /\ new \notin DOMAIN fs
                          /\ fs'[new] = <<>>
                          /\ closes'[new] = 0
                          /\ outfh' = OpenHandle(new)]_vars

\* C14 witness: a second rotation has happened with a non-empty buffer,
\* the chunks being longer than the output buffer; the first two files are
\* closed and the third is open and empty.
C14_Witness ==
    /\ pc = "scan"
    /\ buffer_size < read_size
    /\ Len(created) = 3
    /\ Len(fs[created[2]]) > read_size
    /\ closes[created[1]] = 1
    /\ closes[created[2]] = 1
    /\ Len(fs[created[2]]) >= 2
    /\ OpenOutputs = {3}
    /\ fs[created[3]] = <<>>
    /\ outbuf = <<>>

\* The slices of data cut after every nps-th record end: what the output
\* files hold when the split depends on the input and nps alone.
ExpectedFiles(data, nps) ==
    LET ends == RecordEnds(data)
        k == Len(ends) \div nps
        cut(j) == IF j = 0 THEN 0 ELSE ends[j * nps]
    IN  [j \in 1..(k + 1) |->
            IF j <= k THEN SubSeq(data, cut(j - 1) + 1, cut(j))
            ELSE SubSeq(data, cut(k) + 1, Len(data))]

\* C15: whatever the chunk size, the stack and the record count after any
\* number of scanned bytes are those of one uninterrupted scan of the
\* input, and after a normal run the record count and the contents of the
\* output files are determined by the input and num_per_split alone.
C15_ChunkSizeIndependent ==
    /\ pc = "scan" =>
          /\ state = ScanPrefix(input, Consumed).state
          /\ record_num = Len(ScanPrefix(input, Consumed).ends)
    /\ (CompletedNormally /\ input # <<>>) =>
          /\ record_num = Len(RecordEnds(input))
          /\ [i \in 1..Len(created) |-> fs[created[i]]] = ExpectedFiles(input, num_per_split)

\* C15 witness: """ LF " LF read two bytes at a time through an output
\* buffer of one byte, so that a chunk boundary falls between the quotes of
\* the escaped pair, came out as one record.
C15_Witness ==
    /\ CompletedNormally
    /\ input = ExQuotedLF
    /\ read_size = 2
    /\ buffer_size < read_size
    /\ num_per_split = 1
    /\ record_num = 1
    /\ fs[created[1]] = ExQuotedLF
    /\ fs[created[2]] = <<>>

\* The last byte of data is an LF that ends a record
EndsOnTerminator(data) ==
    /\ data # <<>>
    /\ RecordEnds(data) # <<>>
    /\ RecordEnds(data)[Len(RecordEnds(data))] = Len(data)

\* C16: the count reported for an empty input is 0, and for an input whose
\* last byte is a record-terminating LF it is the number of terminators.
C16_NoSpuriousRecord ==
    CompletedNormally =>
        /\ input = <<>> => record_num = 0
        /\ EndsOnTerminator(input) => record_num = Len(RecordEnds(input))

\* C16 witness: a two-record input ending on its terminator was counted as
\* two records.
C16_Witness ==
    /\ CompletedNormally
    /\ input = <<LF, 13, LF>>
    /\ EndsOnTerminator(input)
    /\ record_num = 2

\* C17: output_filenum starts at 1 and never decreases; it changes only on
\* a record end that makes record_num a multiple of num_per_split, and then
\* by one; every such record end that raises no error increments it; after
\* a normal run it is 1 + (terminators \div num_per_split).
C17_FileSequence ==
    /\ [](pc = "start" => output_filenum = 1)
    /\ [][output_filenum' >= output_filenum]_vars
    /\ [][output_filenum' # output_filenum =>
            /\ output_filenum' = output_filenum + 1
            /\ record_num' = record_num + 1
            /\ record_num' % num_per_split = 0]_vars
    /\ [][(exc' = "none" /\ record_num' # record_num
             /\ record_num' % num_per_split = 0) =>
            output_filenum' = output_filenum + 1]_vars
    /\ [](CompletedNormally =>
            output_filenum = 1 + (Len(RecordEnds(input)) \div num_per_split))

\* C17 witness: five records split by two ended with output_filenum 3.
C17_Witness ==
    /\ CompletedNormally
    /\ input = ExFive
    /\ num_per_split = 2
    /\ record_num = 5
    /\ output_filenum = 3

\* The k-th name of the sequence candidate, candidate_1, candidate_2, ...
\* for the counter-th output file (counter < 10) of the input d/t.c, spelt
\* out: t_00000<counter>.c or t_00000<counter>_<k>.c, beside the input or
\* in the output directory.
SequenceName(odir, counter, k) ==
    (IF odir = <<>> THEN <<"d">> ELSE odir)
        \o <<"/", "t", "_", "0", "0", "0", "0", "0", Digit(counter)>>
        \o (IF k = 0 THEN <<>> ELSE <<"_">> \o Dec(k))
        \o <<".", "c">>

\* C18: every allocation returns the first name of the sequence candidate,
\* candidate_1, candidate_2, ... that does not exist, each disambiguator
\* being appended to the candidate itself; it is reached after at most as
\* many retries as there are files; and FileExistsError never leaves an
\* allocation (it arises from the index destination only).
C18_FirstFreeName ==
    /\ [][created' # created =>
            LET n == created'[Len(created')]
            IN  \E k \in 0..Cardinality(DOMAIN fs) :
                    /\ n = SequenceName(output_dir, output_filenum', k)
                    /\ n \notin DOMAIN fs
                    /\ n \in DOMAIN fs'
                    /\ \A j \in 0..(k - 1) :
                          SequenceName(output_dir, output_filenum', j) \in DOMAIN fs]_vars
    /\ [](exc = "FileExistsError" =>
            (created = <<>> /\ generate_index # <<>> /\ generate_index \in DOMAIN fs0))

\* C18 witness: the first file went to candidate_2 after two collisions and
\* the second file to its candidate_1 after one.
C18_Witness ==
    /\ Len(created) >= 2
    /\ created[1] = SequenceName(output_dir, 1, 2)
    /\ created[2] = SequenceName(output_dir, 2, 1)
    /\ SequenceName(output_dir, 1, 1) \in DOMAIN fs0
    /\ SequenceName(output_dir, 2, 0) \in DOMAIN fs0

\* The stacks found between two bytes
RestingStacks ==
    {<<"start">>, <<"start", "inquote">>, <<"start", "inquote", "endquote">>}

\* C19: once assigned, the state stack is [start], [start, inquote] or
\* [start, inquote, endquote] between bytes; and whatever byte comes next,
\* the stack between the two if/elif chains is non-empty, at most 3 deep
\* and still has start at its bottom, so that no pop or state[-1] fails.
C19_StackShape ==
    /\ state # <<>> => state \in RestingStacks
    /\ pc = "scan" =>
          /\ state \in RestingStacks
          /\ \A c \in Bytes :
                LET mid == ResolveEndquote(state, c)
                IN  /\ Len(mid) \in 1..3
                    /\ mid[1] = "start"
                    /\ ScanStep(state, c).state \in RestingStacks

\* C19 witness: an input with a stray quote in an unquoted field, CR "" ,
\* ended the run with the stack three deep.
C19_Witness ==
    /\ CompletedNormally
    /\ input = <<13, QUOTE, QUOTE>>
    /\ state = <<"start", "inquote", "endquote">>

\* C20: a normal run on an empty input creates no file at all; on another
\* input it creates 1 + (terminators \div num_per_split) output files, all
\* of them new, and when the input ends on a split boundary the file
\* allocated last is empty.
C20_FileCount ==
    CompletedNormally =>
        IF input = <<>>
        THEN created = <<>> /\ DOMAIN fs = DOMAIN fs0
        ELSE /\ Len(created) = 1 + (Len(RecordEnds(input)) \div num_per_split)
             /\ Cardinality(DOMAIN fs \ (DOMAIN fs0 \cup {generate_index})) = Len(created)
             /\ (EndsOnTerminator(input) /\ Len(RecordEnds(input)) % num_per_split = 0) =>
                    fs[created[Len(created)]] = <<>>

\* C20 witness: a two-record input split by two ended on the boundary and
\* left a second, empty file.
C20_Witness ==
    /\ CompletedNormally
    /\ input = <<LF, LF>>
    /\ num_per_split = 2
    /\ Len(created) = 2
    /\ fs[created[1]] = input
    /\ fs[created[2]] = <<>>

====
